---- MODULE Spec2Model ----
(***************************************************************************)
(* Model of main.py: the per-channel conversation history cache            *)
(* (conversation_history, get_history, add_to_history, clear_history), the *)
(* chunker split_message, generate_response, the on_message handler and    *)
(* the reset command.                                                      *)
(*                                                                         *)
(* Three specifications share the module:                                  *)
(*   SpecHistory  the cache operations called in any order;                *)
(*   SpecSplit    split_message, one loop iteration per step;              *)
(*   Spec         the bot: on_message coroutines and reset commands        *)
(*                interleaved at their await points.                       *)
(* Text is a sequence of characters; NL is the newline character.          *)
(***************************************************************************)
EXTENDS Integers, Sequences, FiniteSets, TLC

VARIABLES
    conversation_history,  \* dict channel_id -> deque (main.py:47)
    appended,              \* ghost: per channel, entries appended since the last clear
    last_call,             \* ghost: the last cache operation and what it returned
    sm_input,              \* split_message: the text argument as passed
    sm_limit,              \* split_message: the limit argument
    sm_text,               \* split_message: local text (the remaining text)
    sm_chunks,             \* split_message: local chunks
    sm_pc,                 \* split_message: "loop" (line 67) or "done" (line 75)
    tasks,                 \* the on_message coroutines, each at one of its await points
    last_msg               \* ghost: the message the step just taken handed to on_message

cacheGhost == <<appended, last_call>>
splitVars == <<sm_input, sm_limit, sm_text, sm_chunks, sm_pc>>
botVars == <<tasks, last_msg>>

vars == <<conversation_history, appended, last_call,
          sm_input, sm_limit, sm_text, sm_chunks, sm_pc, tasks, last_msg>>

----------------------------------------------------------------------------
(* Bounds and program constants *)

\* deque(maxlen=15), main.py:51
Capacity == 15

\* channels of the model: 1 is a guild text channel, 2 is a direct-message channel
Channels == {1, 2}

\* SpecHistory: entries appended since the last clear, all channels together
MaxAppends == 17

\* SpecHistory: entries of role "assistant" among them
MaxAssistant == 1

Roles == {"user", "assistant"}

Min(a, b) == IF a <= b THEN a ELSE b

SetMax(S) == CHOOSE x \in S : \A y \in S : y <= x

\* SpecSplit: length of the text passed to split_message, the limit passed, and
\* the loop iterations followed (a loop that stops consuming text grows chunks
\* without end)
MaxTextLen == 7
MaxLimit == 3
MaxChunks == 10

NL == "\n"
Chars == {"a", NL}

\* Spec: on_message coroutines alive together (each handles one message)
TaskIds == {1, 2}

\* Spec: length of message.content, in tokens
MaxContentLen == 1

\* Spec: the limit split_message(ai_text) runs with. The code's default is 1900
\* (main.py:64); the model's texts are a few characters long and the limit is
\* scaled with them.
ReplyLimit == 3

----------------------------------------------------------------------------
(* History cache, main.py:47-60 *)

\* mutant: a deque without maxlen
deque_append_unbounded(d, x) == Append(d, x)

\* mutant: a full deque drops its newest item instead of its oldest
deque_append_drop_newest(d, x) ==
    IF Len(d) >= Capacity THEN Append(SubSeq(d, 1, Len(d) - 1), x) ELSE Append(d, x)

\* deque.append on a deque(maxlen=Capacity): a full deque drops its leftmost item
deque_append(d, x) ==
    IF Len(d) >= Capacity THEN Append(Tail(d), x) ELSE Append(d, x)

\* mutant: get_history without its membership test, a new deque on every call
get_history_effect_fresh(h, channel_id) == (channel_id :> <<>>) @@ h

\* the dict after get_history(channel_id): the key is created when absent
get_history_effect(h, channel_id) ==
    IF channel_id \notin DOMAIN h THEN h @@ (channel_id :> <<>>) ELSE h

\* the deque get_history(channel_id) returns
get_history(h, channel_id) == get_history_effect(h, channel_id)[channel_id]

\* mutant: the turn is put at the left end of the deque (appendleft)
add_to_history_front(h, channel_id, role, content) ==
    LET h1 == get_history_effect(h, channel_id)
    IN  [h1 EXCEPT ![channel_id] = <<[role |-> role, content |-> content]>> \o @]

\* the dict after add_to_history(channel_id, role, content)
add_to_history(h, channel_id, role, content) ==
    LET h1 == get_history_effect(h, channel_id)
    IN  [h1 EXCEPT ![channel_id] =
            deque_append(@, [role |-> role, content |-> content])]

\* mutant: clear_history that goes through get_history and so creates the entry
clear_history_creating(h, channel_id) == (channel_id :> <<>>) @@ h

\* mutant: clear_history that empties the deque of every channel
clear_history_all(h, channel_id) == [d \in DOMAIN h |-> <<>>]

\* the dict after clear_history(channel_id)
clear_history(h, channel_id) ==
    IF channel_id \in DOMAIN h THEN [h EXCEPT ![channel_id] = <<>>] ELSE h

----------------------------------------------------------------------------
(* SpecHistory: the cache operations in any order *)

NoCall == [op |-> "none", ch |-> 0, ret |-> <<>>]

SplitIdle ==
    /\ sm_input = <<>> /\ sm_limit = 1 /\ sm_text = <<>>
    /\ sm_chunks = <<>> /\ sm_pc = "done"

\* a coroutine slot no message has been handed to. A coroutine's locals are kept
\* while it can still read them: user_input up to the completion call, api_messages
\* while the call is in flight, ai_text, chunks and sent (the chunks delivered so
\* far) up to process_commands.
IdleTask ==
    [pc |-> "idle", channel |-> 0, user_input |-> <<>>, api_messages |-> <<>>,
     api_error |-> [failed |-> FALSE, e |-> <<>>], ai_text |-> <<>>, chunks |-> <<>>, sent |-> <<>>,
     commands_run |-> FALSE]

NoMsg == [author_bot |-> FALSE, mentioned |-> FALSE, reply_to_bot |-> FALSE,
          channel |-> 0, content |-> <<>>]

BotIdle ==
    /\ tasks = [t \in TaskIds |-> IdleTask]
    /\ last_msg = NoMsg

InitHistory ==
    /\ conversation_history = <<>>
    /\ appended = [c \in Channels |-> <<>>]
    /\ last_call = NoCall
    /\ SplitIdle
    /\ BotIdle

RECURSIVE SumOver(_, _)
SumOver(f, S) ==
    IF S = {} THEN 0
    ELSE LET c == CHOOSE x \in S : TRUE IN f[c] + SumOver(f, S \ {c})

TotalAppended == SumOver([c \in Channels |-> Len(appended[c])], Channels)

AssistantAppended ==
    SumOver([c \in Channels |->
                Cardinality({i \in 1..Len(appended[c]) : appended[c][i].role = "assistant"})],
            Channels)

HGet(c) ==
    /\ conversation_history' = get_history_effect(conversation_history, c)
    /\ last_call' = [op |-> "get", ch |-> c, ret |-> get_history(conversation_history, c)]
    /\ UNCHANGED <<appended, splitVars, botVars>>

\* the k-th append to a channel since its last clear carries content k
HAdd(c, role) ==
    /\ TotalAppended < MaxAppends
    /\ role = "assistant" => AssistantAppended < MaxAssistant
    /\ LET content == Len(appended[c]) + 1
       IN  /\ conversation_history' = add_to_history(conversation_history, c, role, content)
           /\ appended' = [appended EXCEPT ![c] = Append(@, [role |-> role, content |-> content])]
    /\ last_call' = [op |-> "add", ch |-> c, ret |-> <<>>]
    /\ UNCHANGED <<splitVars, botVars>>

HClear(c) ==
    /\ conversation_history' = clear_history(conversation_history, c)
    /\ appended' = [appended EXCEPT ![c] = <<>>]
    /\ last_call' = [op |-> "clear", ch |-> c, ret |-> <<>>]
    /\ UNCHANGED <<splitVars, botVars>>

NextHistory ==
    \E c \in Channels :
        \/ HGet(c)
        \/ \E role \in Roles : HAdd(c, role)
        \/ HClear(c)

SpecHistory == InitHistory /\ [][NextHistory]_vars

\* C1: after any sequence of get_history / add_to_history / clear_history calls on
\* any channels, every channel's history holds at most Capacity (15) entries.
C1_LengthAtMostCapacity ==
    \A c \in DOMAIN conversation_history : Len(conversation_history[c]) <= Capacity

\* a channel whose deque is full after more than Capacity appends
C1_Witness ==
    \E c \in DOMAIN conversation_history :
        /\ Len(appended[c]) > Capacity
        /\ Len(conversation_history[c]) = Capacity

LastN(s, n) == SubSeq(s, Len(s) - n + 1, Len(s))

\* C2: after k appends to a channel with no clear in between, its history is the
\* last min(k, 15) appended entries, in the order they were appended.
C2_LastAppendedInOrder ==
    \A c \in Channels :
        IF c \in DOMAIN conversation_history
        THEN conversation_history[c] =
                LastN(appended[c], Min(Len(appended[c]), Capacity))
        ELSE appended[c] = <<>>

\* m1..m16 appended: m1 is gone, m2..m16 remain
C2_Witness ==
    \E c \in DOMAIN conversation_history :
        /\ Len(appended[c]) = Capacity + 1
        /\ [i \in 1..Capacity |-> conversation_history[c][i].content]
             = [i \in 1..Capacity |-> i + 1]

----------------------------------------------------------------------------
(* split_message, main.py:64-75 *)

RECURSIVE SeqsUpTo(_, _)
SeqsUpTo(S, n) ==
    IF n = 0 THEN {<<>>}
    ELSE LET R == SeqsUpTo(S, n - 1)
         IN  R \cup {Append(t, x) : t \in {r \in R : Len(r) = n - 1}, x \in S}

\* mutant: text.find instead of text.rfind (the first newline, not the last)
find_newline(text, limit) ==
    LET found == {i \in 0..(Min(limit, Len(text)) - 1) : text[i + 1] = NL}
    IN  IF found = {} THEN -1 ELSE CHOOSE x \in found : \A y \in found : x <= y

\* text.rfind('\n', 0, limit): the highest 0-based index below limit (and below
\* len(text)) that holds a newline, -1 when there is none
rfind_newline(text, limit) ==
    LET found == {i \in 0..(Min(limit, Len(text)) - 1) : text[i + 1] = NL}
    IN  IF found = {} THEN -1 ELSE SetMax(found)

\* mutant: the forced split one character too far
split_index_over(text, limit) ==
    IF rfind_newline(text, limit) = -1 THEN limit + 1 ELSE rfind_newline(text, limit)

\* lines 69-71: split_index
split_index(text, limit) ==
    IF rfind_newline(text, limit) = -1 THEN limit ELSE rfind_newline(text, limit)

\* mutant: the remainder starts after the character at the cut (the newline is stripped)
slice_from_skip(text, i) == SubSeq(text, i + 2, Len(text))

\* text[:split_index] and text[split_index:]
slice_to(text, i) == SubSeq(text, 1, Min(i, Len(text)))
slice_from(text, i) == SubSeq(text, i + 1, Len(text))

\* mutant: >= instead of >
loop_continues_ge(text, limit) == Len(text) >= limit

\* line 67: the loop condition
loop_continues(text, limit) == Len(text) > limit

InitSplit ==
    /\ conversation_history = <<>>
    /\ appended = [c \in Channels |-> <<>>]
    /\ last_call = NoCall
    /\ sm_input \in SeqsUpTo(Chars, MaxTextLen)
    /\ sm_limit \in 1..MaxLimit
    /\ sm_text = sm_input
    /\ sm_chunks = <<>>
    /\ sm_pc = "loop"
    /\ BotIdle

\* one iteration of the while loop, lines 67-73
SplitIterate ==
    /\ sm_pc = "loop"
    /\ loop_continues(sm_text, sm_limit)
    /\ Len(sm_chunks) < MaxChunks
    /\ sm_chunks' = Append(sm_chunks, slice_to(sm_text, split_index(sm_text, sm_limit)))
    /\ sm_text' = slice_from(sm_text, split_index(sm_text, sm_limit))
    /\ UNCHANGED <<conversation_history, cacheGhost, botVars, sm_input, sm_limit, sm_pc>>

\* the loop exit and lines 74-75
SplitReturn ==
    /\ sm_pc = "loop"
    /\ ~loop_continues(sm_text, sm_limit)
    /\ sm_chunks' = Append(sm_chunks, sm_text)
    /\ sm_pc' = "done"
    /\ UNCHANGED <<conversation_history, cacheGhost, botVars, sm_input, sm_limit, sm_text>>

NextSplit == SplitIterate \/ SplitReturn

SpecSplit == InitSplit /\ [][NextSplit]_vars

RECURSIVE Concat(_)
Concat(ss) == IF ss = <<>> THEN <<>> ELSE Head(ss) \o Concat(Tail(ss))

HasNewline(text) == \E i \in 1..Len(text) : text[i] = NL

\* C3: split_message terminates for every text and every limit >= 1: each
\* iteration of the chunking loop leaves strictly less text to split.
C3_LoopMakesProgress ==
    [][(sm_pc = "loop" /\ sm_pc' = "loop") => Len(sm_text') < Len(sm_text)]_vars

\* C4: the segments split_message returns, concatenated in order, are the text
\* it was given.
C4_ConcatReconstructs ==
    sm_pc = "done" => Concat(sm_chunks) = sm_input

\* a returned split with a cut at a newline, which begins the next segment
C4_Witness ==
    /\ sm_pc = "done"
    /\ Len(sm_chunks) >= 3
    /\ \E i \in 2..Len(sm_chunks) : sm_chunks[i] # <<>> /\ sm_chunks[i][1] = NL

\* C5: every segment except possibly the last has length at most the limit.
C5_SegmentsWithinLimit ==
    \A i \in 1..Len(sm_chunks) :
        \/ sm_pc = "done" /\ i = Len(sm_chunks)
        \/ Len(sm_chunks[i]) <= sm_limit

\* a returned split whose first segment is a full hard cut
C5_Witness ==
    /\ sm_pc = "done"
    /\ Len(sm_chunks) >= 2
    /\ Len(sm_chunks[1]) = sm_limit

\* the cut the claim describes, the newline searched among the 0-based indices 0..hi
CutAtLastNewline(hi) ==
    LET found == {i \in 0..hi : i < Len(sm_text) /\ sm_text[i + 1] = NL}
        cut == IF found = {} THEN sm_limit ELSE SetMax(found)
    IN  /\ sm_chunks' = Append(sm_chunks, SubSeq(sm_text, 1, cut))
        /\ sm_text' = SubSeq(sm_text, cut + 1, Len(sm_text))

\* C6 as stated: while the remaining text is longer than L, the cut is at the last
\* newline at or before position L, and a hard cut at L only if there is none.
C6_CutAtOrBeforeLimit ==
    [][(sm_pc = "loop" /\ sm_pc' = "loop" /\ Len(sm_text) > sm_limit)
          => CutAtLastNewline(sm_limit)]_vars

\* C6 amended: the newline is searched among the first L characters only (indices
\* 0..L-1); the cut is at the last newline there, the segment is the text before it
\* and the next segment begins with it; with no newline there the cut is at L.
C6_CutBeforeLimit ==
    [][(sm_pc = "loop" /\ sm_pc' = "loop" /\ Len(sm_text) > sm_limit)
          => CutAtLastNewline(sm_limit - 1)]_vars

\* a returned split with a hard cut (a newline-free first segment of L characters)
\* followed by a newline cut (a shorter second segment, the third segment
\* beginning with the newline)
C6_Witness ==
    /\ sm_pc = "done"
    /\ Len(sm_chunks) >= 3
    /\ Len(sm_chunks[1]) = sm_limit
    /\ ~HasNewline(sm_chunks[1])
    /\ Len(sm_chunks[2]) \in 1..(sm_limit - 1)
    /\ sm_chunks[3] # <<>>
    /\ sm_chunks[3][1] = NL

\* the slices of a newline-free text: one segment when it fits, else slices of
\* exactly limit characters and the remainder
ExpectedSlices(text, limit) ==
    IF Len(text) <= limit THEN <<text>>
    ELSE LET k == (Len(text) + limit - 1) \div limit
         IN  [i \in 1..k |-> SubSeq(text, (i - 1) * limit + 1, Min(i * limit, Len(text)))]

\* C7: a newline-free text of length n is returned as slices of exactly L
\* characters and a final remainder; a text with n <= L as one segment.
C7_NewlineFreeSlices ==
    (sm_pc = "done" /\ ~HasNewline(sm_input))
        => sm_chunks = ExpectedSlices(sm_input, sm_limit)

\* n = 2L + 1: lengths L, L, 1
C7_Witness ==
    /\ sm_pc = "done"
    /\ ~HasNewline(sm_input)
    /\ Len(sm_input) = 2 * sm_limit + 1
    /\ Len(sm_chunks) = 3
    /\ Len(sm_chunks[3]) = 1

----------------------------------------------------------------------------
(* The bot, main.py:77-97 and 119-176 *)

\* message.content, in tokens: the bot's mention f'<@{bot.user.id}>', a whitespace
\* character, any other character
MentionTok == "<@bot>"
Space == " "
ContentTokens == {MentionTok, Space, "x"}

Contents == SeqsUpTo(ContentTokens, MaxContentLen)

\* the fields of a message on_message reads (lines 122-133); channel 2 is the
\* DMChannel
Messages ==
    [author_bot : BOOLEAN, mentioned : BOOLEAN, reply_to_bot : BOOLEAN,
     channel : Channels, content : Contents]

\* the texts the completion API may return, and the descriptions str(e) of the
\* exceptions it may raise
Replies ==
    { <<"a">>,
      <<"a", NL, "a", "a", "a">> }

Errors == { <<"x">>, <<NL, "x", "x", "x">> }

\* mutant: no channel is taken for a DMChannel
is_dm_never(channel) == FALSE

\* line 127: isinstance(message.channel, discord.DMChannel)
is_dm(channel) == channel = 2

\* mutant: direct messages do not trigger the bot
Triggered_no_dm(msg) == msg.mentioned \/ msg.reply_to_bot

\* line 131: is_mentioned or is_dm or is_reply
Triggered(msg) == msg.mentioned \/ is_dm(msg.channel) \/ msg.reply_to_bot

\* str.replace(f'<@{bot.user.id}>', '')
replace_mention(content) == SelectSeq(content, LAMBDA tok : tok # MentionTok)

\* str.strip()
RECURSIVE strip(_)
strip(text) ==
    IF text = <<>> THEN text
    ELSE IF Head(text) = Space THEN strip(Tail(text))
    ELSE IF text[Len(text)] = Space THEN strip(SubSeq(text, 1, Len(text) - 1))
    ELSE text

\* mutant: the mention is removed but the text is not stripped
user_input_unstripped(content) == replace_mention(content)

\* line 133: user_input
user_input_of(content) == strip(replace_mention(content))

\* lines 81-84: system_msg
SystemMsg == [role |-> "system", content |-> <<"s">>]

\* mutant: the error text does not embed the exception
ErrorTextGeneric(e) == <<"E", "(", ")">>

\* line 97: f"**Error:** I encountered an issue ... ({e})."
ErrorText(e) == <<"E", "(">> \o e \o <<")">>

\* split_message as a function: the loop of lines 67-73 run to its end. An
\* iteration that leaves text as it was is repeated forever; returns is FALSE then.
RECURSIVE split_loop(_, _, _)
split_loop(text, limit, chunks) ==
    IF loop_continues(text, limit)
    THEN LET i == split_index(text, limit)
         IN  IF slice_from(text, i) = text
             THEN [returns |-> FALSE, chunks |-> chunks]
             ELSE split_loop(slice_from(text, i), limit, Append(chunks, slice_to(text, i)))
    ELSE [returns |-> TRUE, chunks |-> Append(chunks, text)]

split_message(text, limit) == split_loop(text, limit, <<>>)

\* split_message is synchronous: while it loops no coroutine of the event loop runs
Blocked == \E t \in TaskIds : tasks[t].pc = "hung"

\* a coroutine that has returned ("done") or raised ("failed")
Ended(pc, commands_run) == [IdleTask EXCEPT !.pc = pc, !.commands_run = commands_run]

InitBot ==
    /\ conversation_history = <<>>
    /\ appended = [c \in Channels |-> <<>>]
    /\ last_call = NoCall
    /\ SplitIdle
    /\ BotIdle

\* on_message from its entry to its first await (lines 122-143), or to its return
OnMessage(t, msg) ==
    /\ ~Blocked
    /\ tasks[t].pc = "idle"
    /\ \A u \in TaskIds : u < t => tasks[u].pc # "idle"
    /\ last_msg' = msg
    /\ IF msg.author_bot
       THEN \* line 123
            /\ tasks' = [tasks EXCEPT ![t] = Ended("done", FALSE)]
            /\ UNCHANGED conversation_history
       ELSE IF Triggered(msg)
       THEN IF user_input_of(msg.content) = <<>>
            THEN \* line 137
                 /\ tasks' = [tasks EXCEPT ![t] = Ended("done", FALSE)]
                 /\ UNCHANGED conversation_history
            ELSE \* lines 140, 143
                 /\ conversation_history' =
                        add_to_history(conversation_history, msg.channel, "user",
                                       user_input_of(msg.content))
                 /\ tasks' = [tasks EXCEPT ![t] =
                        [@ EXCEPT !.pc = "typing", !.channel = msg.channel,
                                  !.user_input = user_input_of(msg.content)]]
       ELSE \* line 160
            /\ tasks' = [tasks EXCEPT ![t].pc = "commands"]
            /\ UNCHANGED conversation_history
    /\ UNCHANGED <<cacheGhost, splitVars>>

\* the typing indicator is entered; generate_response runs to its await
\* (lines 143-145, 81-88)
TypingEntered(t) ==
    /\ ~Blocked
    /\ tasks[t].pc = "typing"
    /\ conversation_history' = get_history_effect(conversation_history, tasks[t].channel)
    /\ tasks' = [tasks EXCEPT ![t] =
            [@ EXCEPT !.pc = "api",
                      !.api_messages = <<SystemMsg>> \o
                            get_history(conversation_history, tasks[t].channel)]]
    /\ last_msg' = NoMsg
    /\ UNCHANGED <<cacheGhost, splitVars>>

\* entering the typing indicator raises (an HTTP error): on_message ends there
TypingFails(t) ==
    /\ ~Blocked
    /\ tasks[t].pc = "typing"
    /\ tasks' = [tasks EXCEPT ![t] = Ended("failed", FALSE)]
    /\ last_msg' = NoMsg
    /\ UNCHANGED <<conversation_history, cacheGhost, splitVars>>

\* generate_response has returned text; lines 148-152 up to the first reply
AfterGenerate(t, text, failed, e) ==
    LET sp == split_message(text, ReplyLimit)
    IN  /\ conversation_history' =
                add_to_history(conversation_history, tasks[t].channel, "assistant", text)
        /\ tasks' = [tasks EXCEPT ![t] =
                [@ EXCEPT !.pc = IF sp.returns THEN "reply" ELSE "hung",
                          !.user_input = <<>>,
                          !.api_messages = <<>>,
                          !.ai_text = text,
                          !.api_error = [failed |-> failed, e |-> e],
                          !.chunks = IF sp.returns THEN sp.chunks ELSE <<>>]]
        /\ last_msg' = NoMsg
        /\ UNCHANGED <<cacheGhost, splitVars>>

\* the completion call returns a text (line 94)
ApiReturns(t) ==
    /\ ~Blocked
    /\ tasks[t].pc = "api"
    /\ \E r \in Replies : AfterGenerate(t, r, FALSE, <<>>)

\* the completion call raises e (lines 95-97)
ApiRaises(t) ==
    /\ ~Blocked
    /\ tasks[t].pc = "api"
    /\ \E e \in Errors : AfterGenerate(t, ErrorText(e), TRUE, e)

\* mutant: the first chunk is dispatched again and again
FirstChunk(t) == tasks[t].chunks[1]

\* the chunk being dispatched
NextChunk(t) == tasks[t].chunks[Len(tasks[t].sent) + 1]

AfterSend(t, how) ==
    /\ tasks' = [tasks EXCEPT ![t] =
            [@ EXCEPT !.sent = Append(@, [chunk |-> NextChunk(t), how |-> how]),
                      !.pc = IF Len(tasks[t].sent) + 1 = Len(tasks[t].chunks)
                             THEN "commands" ELSE "reply"]]
    /\ last_msg' = NoMsg
    /\ UNCHANGED <<conversation_history, cacheGhost, splitVars>>

\* line 154: message.reply(chunk) returns
ReplySent(t) ==
    /\ ~Blocked
    /\ tasks[t].pc = "reply"
    /\ AfterSend(t, "reply")

\* line 154 raises, lines 155-157 begin
ReplyFails(t) ==
    /\ ~Blocked
    /\ tasks[t].pc = "reply"
    /\ tasks' = [tasks EXCEPT ![t].pc = "fallback"]
    /\ last_msg' = NoMsg
    /\ UNCHANGED <<conversation_history, cacheGhost, splitVars>>

\* line 157: message.channel.send(chunk) returns
FallbackSent(t) ==
    /\ ~Blocked
    /\ tasks[t].pc = "fallback"
    /\ AfterSend(t, "send")

\* line 157 raises: nothing catches it
FallbackFails(t) ==
    /\ ~Blocked
    /\ tasks[t].pc = "fallback"
    /\ tasks' = [tasks EXCEPT ![t] = Ended("failed", FALSE)]
    /\ last_msg' = NoMsg
    /\ UNCHANGED <<conversation_history, cacheGhost, splitVars>>

\* line 160: bot.process_commands(message)
ProcessCommands(t) ==
    /\ ~Blocked
    /\ tasks[t].pc = "commands"
    /\ tasks' = [tasks EXCEPT ![t] = Ended("done", TRUE)]
    /\ last_msg' = NoMsg
    /\ UNCHANGED <<conversation_history, cacheGhost, splitVars>>

\* the reset command, lines 165-176
Reset(c) ==
    /\ ~Blocked
    /\ conversation_history' = clear_history(conversation_history, c)
    /\ last_msg' = NoMsg
    /\ UNCHANGED <<tasks, cacheGhost, splitVars>>

Next ==
    \/ \E t \in TaskIds, msg \in Messages : OnMessage(t, msg)
    \/ \E t \in TaskIds : TypingEntered(t)
    \/ \E t \in TaskIds : TypingFails(t)
    \/ \E t \in TaskIds : ApiReturns(t)
    \/ \E t \in TaskIds : ApiRaises(t)
    \/ \E t \in TaskIds : ReplySent(t)
    \/ \E t \in TaskIds : ReplyFails(t)
    \/ \E t \in TaskIds : FallbackSent(t)
    \/ \E t \in TaskIds : FallbackFails(t)
    \/ \E t \in TaskIds : ProcessCommands(t)
    \/ \E c \in Channels : Reset(c)

Spec == InitBot /\ [][Next]_vars

----------------------------------------------------------------------------
(* on_message: eligibility, empty input, API failure *)

\* the step hands a message (last_msg') to coroutine t
Arrival(t) == tasks[t].pc = "idle" /\ tasks'[t].pc # "idle"

\* the claim's eligibility of a message
EligibleMsg(m) ==
    /\ ~m.author_bot
    /\ m.mentioned \/ m.channel = 2 \/ m.reply_to_bot

\* nothing but mention tokens and whitespace: empty once the mention is removed
\* and the text trimmed
Blank(content) == \A i \in 1..Len(content) : content[i] \in {MentionTok, Space}

\* the LLM flow begins: the user turn is appended and the coroutine goes on to the
\* typing indicator and the completion call
FlowStarts(t) ==
    /\ tasks'[t].pc = "typing"
    /\ tasks'[t].channel = last_msg'.channel
    /\ last_msg'.channel \in DOMAIN conversation_history'
    /\ conversation_history'[last_msg'.channel] # <<>>
    /\ conversation_history'[last_msg'.channel]
            [Len(conversation_history'[last_msg'.channel])].role = "user"

\* the LLM flow does not run: no history is touched and the coroutine has no
\* completion call and no reply ahead of it
FlowSkipped(t) ==
    /\ tasks'[t].pc \in {"done", "commands"}
    /\ tasks'[t].api_messages = <<>>
    /\ tasks'[t].sent = <<>>
    /\ conversation_history' = conversation_history

\* a coroutine that is past its send loop, or has returned or raised, does nothing
\* but process_commands
EndedIsFinal ==
    \A t \in TaskIds :
        /\ tasks[t].pc \in {"done", "failed"} => tasks'[t] = tasks[t]
        /\ (tasks[t].pc = "commands" /\ tasks'[t] # tasks[t]) => tasks'[t].pc = "done"

\* C8 as stated: the LLM flow runs for a message if and only if the sender is not
\* a bot and the bot is mentioned, the channel is a direct message or the message
\* replies to the bot.
C8_FlowIffEligible ==
    [][\A t \in TaskIds :
          Arrival(t) => IF EligibleMsg(last_msg') THEN FlowStarts(t) ELSE FlowSkipped(t)]_vars

\* C8 amended: the LLM flow runs if and only if the message is eligible and its
\* text is not empty once the mention is removed and the text trimmed; a message of
\* a bot author mutates no history and produces no reply.
C8_FlowIffEligibleNonEmpty ==
    [][/\ \A t \in TaskIds :
            Arrival(t) =>
                /\ IF EligibleMsg(last_msg') /\ ~Blank(last_msg'.content)
                   THEN FlowStarts(t) ELSE FlowSkipped(t)
                /\ last_msg'.author_bot => tasks'[t].pc = "done"
       /\ EndedIsFinal]_vars

\* a reply to the bot in the guild channel, without a mention, has begun the flow
C8_Witness ==
    /\ ~last_msg.author_bot
    /\ ~last_msg.mentioned
    /\ last_msg.reply_to_bot
    /\ last_msg.channel = 1
    /\ \E t \in TaskIds : tasks[t].pc = "typing" /\ tasks[t].channel = 1
    /\ 1 \in DOMAIN conversation_history
    /\ conversation_history[1] = <<[role |-> "user", content |-> <<"x">>]>>

\* C9: an eligible message whose text is empty after removing the mention and
\* trimming leaves the history mapping as it was (no entry appended, no channel
\* created), and no completion call and no reply follow.
C9_EmptyInputNoEffect ==
    [][\A t \in TaskIds :
          (Arrival(t) /\ EligibleMsg(last_msg') /\ Blank(last_msg'.content))
              => /\ conversation_history' = conversation_history
                 /\ DOMAIN conversation_history' = DOMAIN conversation_history
                 /\ tasks'[t] = [IdleTask EXCEPT !.pc = "done"]]_vars

\* a bare mention of the bot from a non-bot author: on_message has returned and no
\* channel has a history
C9_Witness ==
    /\ ~last_msg.author_bot
    /\ last_msg.mentioned
    /\ last_msg.content = <<MentionTok>>
    /\ conversation_history = <<>>
    /\ \E t \in TaskIds : tasks[t].pc = "done"

\* sub occurs in text as a run of consecutive characters
Contains(text, sub) ==
    \E i \in 0..(Len(text) - Len(sub)) : SubSeq(text, i + 1, i + Len(sub)) = sub

\* the completion call of coroutine t has raised in this step
ApiFailedStep(t) ==
    tasks[t].pc = "api" /\ tasks'[t].pc # "api" /\ tasks'[t].api_error.failed

\* C10: when the completion call raises, on_message goes on (nothing is
\* propagated): a text embedding the failure description is produced, that text is
\* appended to the channel history as the assistant turn, and its chunks are what
\* is sent.
C10_ApiFailureBecomesReply ==
    /\ [][\A t \in TaskIds :
            ApiFailedStep(t) =>
                LET ch == tasks[t].channel
                    text == tasks'[t].ai_text
                IN  /\ tasks'[t].pc \in {"reply", "hung"}
                    /\ Contains(text, tasks'[t].api_error.e)
                    /\ text # tasks'[t].api_error.e
                    /\ conversation_history'[ch][Len(conversation_history'[ch])]
                            = [role |-> "assistant", content |-> text]
                    /\ tasks'[t].pc = "reply" =>
                            /\ tasks'[t].chunks # <<>>
                            /\ Concat(tasks'[t].chunks) = text]_vars
    /\ [](\A t \in TaskIds :
            tasks[t].api_error.failed =>
                /\ Len(tasks[t].sent) <= Len(tasks[t].chunks)
                /\ \A i \in 1..Len(tasks[t].sent) :
                        tasks[t].sent[i].chunk = tasks[t].chunks[i]
                /\ tasks[t].pc = "commands" =>
                        Concat([i \in 1..Len(tasks[t].sent) |-> tasks[t].sent[i].chunk])
                            = tasks[t].ai_text)

\* an API failure whose error text is in the history as the assistant turn and has
\* been sent whole, in two chunks
C10_Witness ==
    \E t \in TaskIds :
        /\ tasks[t].api_error.failed
        /\ tasks[t].pc = "commands"
        /\ tasks[t].ai_text = <<"E", "(", "x", ")">>
        /\ Len(tasks[t].sent) = 2
        /\ \E i \in 1..Len(conversation_history[tasks[t].channel]) :
                conversation_history[tasks[t].channel][i]
                    = [role |-> "assistant", content |-> tasks[t].ai_text]

----------------------------------------------------------------------------
(* on_message: the completion request, the send loop, command dispatch *)

\* coroutine t makes its completion call in this step (line 88)
CallStep(t) == tasks[t].pc = "typing" /\ tasks'[t].pc = "api"

\* C11: whenever on_message invokes the completion, the messages sent are the
\* system instruction followed by the channel's full current history, and that
\* history includes the request's own user turn, under every interleaving with
\* other requests and with reset.
C11_RequestHasOwnUserTurn ==
    [][\A t \in TaskIds :
          CallStep(t) =>
              /\ tasks'[t].api_messages =
                    <<SystemMsg>> \o conversation_history[tasks[t].channel]
              /\ \E i \in 1..Len(tasks'[t].api_messages) :
                    tasks'[t].api_messages[i]
                        = [role |-> "user", content |-> tasks[t].user_input]]_vars

\* coroutine t is in its send loop (lines 152-157) and takes a step
SendLoopStep(t) == tasks[t].pc \in {"reply", "fallback"} /\ tasks'[t] # tasks[t]

\* chunk number Len(sent) + 1 is delivered by the step, in the given way
Delivered(t, how) ==
    /\ Len(tasks[t].sent) < Len(tasks[t].chunks)
    /\ tasks'[t].sent =
            Append(tasks[t].sent,
                   [chunk |-> tasks[t].chunks[Len(tasks[t].sent) + 1], how |-> how])
    /\ tasks'[t].chunks = tasks[t].chunks
    /\ tasks'[t].pc = IF Len(tasks'[t].sent) = Len(tasks[t].chunks)
                      THEN "commands" ELSE "reply"

\* C12 as stated: the chunks are dispatched in order, each first as a reply and,
\* if the reply fails, as a plain channel post; a failed send attempt for one chunk
\* never prevents the subsequent chunks from being sent.
C12_FailedSendNeverStops ==
    [][\A t \in TaskIds :
          SendLoopStep(t) =>
              \/ Delivered(t, "reply")
              \/ Delivered(t, "send")
              \/ tasks'[t] = [tasks[t] EXCEPT !.pc = "fallback"]]_vars

\* C12 amended: the chunks are dispatched in order, each first as a reply and, if
\* the reply fails, as a plain channel post; a failed reply never prevents the
\* subsequent chunks from being sent, but a failed channel post ends on_message:
\* the chunk and those after it are not sent.
C12_FailedReplyFallsBack ==
    [][\A t \in TaskIds :
          /\ (SendLoopStep(t) /\ tasks[t].pc = "reply") =>
                \/ Delivered(t, "reply")
                \/ tasks'[t] = [tasks[t] EXCEPT !.pc = "fallback"]
          /\ (SendLoopStep(t) /\ tasks[t].pc = "fallback") =>
                \/ Delivered(t, "send")
                \/ tasks'[t] = Ended("failed", FALSE)
          /\ tasks'[t].pc \in {"reply", "fallback"} =>
                Len(tasks'[t].sent) < Len(tasks'[t].chunks)]_vars

\* two chunks dispatched in order, the first as a channel post after its reply
\* failed, the second as a reply
C12_Witness ==
    \E t \in TaskIds :
        /\ tasks[t].pc = "commands"
        /\ Len(tasks[t].chunks) = 2
        /\ tasks[t].sent =
              << [chunk |-> tasks[t].chunks[1], how |-> "send"],
                 [chunk |-> tasks[t].chunks[2], how |-> "reply"] >>

\* C13 as stated: for every message handled by on_message, process_commands is
\* eventually performed: an on_message that has ended has dispatched commands.
C13_CommandsAlwaysDispatched ==
    \A t \in TaskIds : tasks[t].pc = "done" => tasks[t].commands_run

\* C13 amended: process_commands is the last line of on_message. It is performed
\* at once for a message of a non-bot author that does not trigger the LLM flow and,
\* for a message that does, after the last chunk is delivered; a message of a bot
\* author and a triggering message with empty text return without it.
C13_CommandsAtLastLine ==
    [][\A t \in TaskIds :
          /\ Arrival(t) =>
                IF last_msg'.author_bot
                    \/ (EligibleMsg(last_msg') /\ Blank(last_msg'.content))
                THEN tasks'[t] = [IdleTask EXCEPT !.pc = "done"]
                ELSE IF EligibleMsg(last_msg')
                THEN tasks'[t].pc = "typing"
                ELSE tasks'[t] = [IdleTask EXCEPT !.pc = "commands"]
          /\ (tasks[t].pc # "commands" /\ tasks'[t].pc = "commands") =>
                \/ Arrival(t)
                \/ /\ tasks[t].pc \in {"reply", "fallback"}
                   /\ Len(tasks'[t].sent) = Len(tasks'[t].chunks)
          /\ (~tasks[t].commands_run /\ tasks'[t].commands_run) =>
                tasks[t].pc = "commands" /\ tasks'[t].pc = "done"
          /\ (tasks[t].pc = "commands" /\ tasks'[t] # tasks[t]) =>
                tasks'[t] = [IdleTask EXCEPT !.pc = "done", !.commands_run = TRUE]]_vars

\* one on_message ended with commands dispatched, another returned without
C13_Witness ==
    \E t, u \in TaskIds :
        /\ tasks[t].pc = "done" /\ tasks[t].commands_run
        /\ tasks[u].pc = "done" /\ ~tasks[u].commands_run

----------------------------------------------------------------------------
(* The cache operations one by one, under SpecHistory *)

\* the step is a call clear_history(c)
ClearCalled(c) == last_call'.op = "clear" /\ last_call'.ch = c

\* C14: clear_history on a channel leaves that channel's history empty and always
\* succeeds; on a channel with no recorded history it changes nothing and creates
\* no entry; in every case the histories of all other channels are unchanged.
C14_ClearEmptiesOnlyThatChannel ==
    /\ [][\A c \in Channels :
            ClearCalled(c) =>
                /\ DOMAIN conversation_history' = DOMAIN conversation_history
                /\ c \in DOMAIN conversation_history => conversation_history'[c] = <<>>
                /\ c \notin DOMAIN conversation_history =>
                        conversation_history' = conversation_history
                /\ \A d \in DOMAIN conversation_history \ {c} :
                        conversation_history'[d] = conversation_history[d]]_vars
    /\ [](\A c \in Channels : ENABLED HClear(c))

\* clear_history was just called on a channel that has no entry, while another
\* channel holds turns
C14_Witness ==
    /\ last_call.op = "clear"
    /\ last_call.ch \notin DOMAIN conversation_history
    /\ \E d \in DOMAIN conversation_history : Len(conversation_history[d]) >= 2

\* the step is a call get_history(c)
GetCalled(c) == last_call'.op = "get" /\ last_call'.ch = c

\* C17: while no add_to_history or clear_history intervenes, calling get_history
\* again on the channel returns a sequence equal to the one returned before;
\* get_history never fails, creates an empty sequence when the channel is absent
\* and never changes the contents of an existing one.
C17_GetIdempotentAndCreates ==
    /\ [](last_call.op = "get" =>
            /\ get_history(conversation_history, last_call.ch) = last_call.ret
            /\ get_history_effect(conversation_history, last_call.ch)
                    = conversation_history)
    /\ [][\A c \in Channels :
            GetCalled(c) =>
                /\ c \notin DOMAIN conversation_history =>
                        /\ conversation_history' = conversation_history @@ (c :> <<>>)
                        /\ last_call'.ret = <<>>
                /\ c \in DOMAIN conversation_history =>
                        /\ conversation_history' = conversation_history
                        /\ last_call'.ret = conversation_history[c]]_vars
    /\ [](\A c \in Channels : ENABLED HGet(c))

\* get_history has just returned a channel's two or more turns, and another
\* channel has an entry that holds nothing
C17_Witness ==
    /\ last_call.op = "get"
    /\ Len(last_call.ret) >= 2
    /\ last_call.ret = conversation_history[last_call.ch]
    /\ \E d \in DOMAIN conversation_history :
            d # last_call.ch /\ conversation_history[d] = <<>>

----------------------------------------------------------------------------
(* Concurrent requests and resets, under Spec *)

\* the turns held for channel c, none when the channel has no entry
HistoryOf(h, c) == IF c \in DOMAIN h THEN h[c] ELSE <<>>

\* the step appends the user turn of the message handed to coroutine t
UserTurnAppended(t, c) ==
    /\ Arrival(t)
    /\ tasks'[t].channel = c
    /\ HistoryOf(conversation_history', c) =
            Append(HistoryOf(conversation_history, c),
                   [role |-> "user", content |-> tasks'[t].user_input])

\* the step appends the assistant turn of coroutine t, after whatever the channel
\* holds by then
AssistantTurnAppended(t, c) ==
    /\ tasks[t].pc = "api"
    /\ tasks[t].channel = c
    /\ HistoryOf(conversation_history', c) =
            Append(HistoryOf(conversation_history, c),
                   [role |-> "assistant", content |-> tasks'[t].ai_text])

\* C15: each add_to_history / get_history / clear_history step is atomic: a step
\* of the event loop runs one coroutine and changes the history of at most one
\* channel, by appending one whole turn at its end or by emptying it; the turns of
\* two concurrent requests in one channel interleave (see C15_Witness).
C15_AppendsAtomicButInterleaved ==
    [][/\ \A t, u \in TaskIds :
            (tasks'[t] # tasks[t] /\ tasks'[u] # tasks[u]) => t = u
       /\ \E c \in Channels :
            /\ \A d \in Channels \ {c} :
                    HistoryOf(conversation_history', d) = HistoryOf(conversation_history, d)
            /\ \/ HistoryOf(conversation_history', c) = HistoryOf(conversation_history, c)
               \/ tasks' = tasks /\ HistoryOf(conversation_history', c) = <<>>
               \/ \E t \in TaskIds : UserTurnAppended(t, c)
               \/ \E t \in TaskIds : AssistantTurnAppended(t, c)]_vars

\* two requests in the guild channel: the history holds both user turns before
\* either assistant turn, and the assistant turn of the second request before that
\* of the first
C15_Witness ==
    /\ tasks[1].channel = 1 /\ tasks[2].channel = 1
    /\ tasks[1].pc \in {"reply", "fallback", "commands"}
    /\ tasks[2].pc \in {"reply", "fallback", "commands"}
    /\ tasks[1].ai_text # tasks[2].ai_text
    /\ 1 \in DOMAIN conversation_history
    /\ conversation_history[1] =
          << [role |-> "user", content |-> <<"x">>],
             [role |-> "user", content |-> <<"x">>],
             [role |-> "assistant", content |-> tasks[2].ai_text],
             [role |-> "assistant", content |-> tasks[1].ai_text] >>

\* the channel on whose behalf coroutine t takes its step
StepChannel(t) == IF Arrival(t) THEN last_msg'.channel ELSE tasks[t].channel

\* C16: every step taken on behalf of a channel (append of the user turn, API
\* call, append of the assistant turn, clear) leaves the history of every other
\* channel unchanged, and creates no entry for it.
C16_OtherChannelsUnchanged ==
    [][/\ \A t \in TaskIds :
            tasks'[t] # tasks[t] =>
                \A d \in Channels \ {StepChannel(t)} :
                    /\ d \in DOMAIN conversation_history' <=> d \in DOMAIN conversation_history
                    /\ HistoryOf(conversation_history', d)
                            = HistoryOf(conversation_history, d)
       /\ tasks' = tasks =>
            \E c \in Channels :
                /\ HistoryOf(conversation_history', c) = <<>>
                /\ \A d \in Channels \ {c} :
                        /\ d \in DOMAIN conversation_history' <=> d \in DOMAIN conversation_history
                        /\ HistoryOf(conversation_history', d)
                                = HistoryOf(conversation_history, d)]_vars

\* a request in the guild channel was reset while its completion call was in
\* flight, and the direct-message channel still holds its own request's two turns
C16_Witness ==
    /\ tasks[1].channel = 1 /\ tasks[2].channel = 2
    /\ DOMAIN conversation_history = {1, 2}
    /\ conversation_history[1] =
          << [role |-> "assistant", content |-> tasks[1].ai_text] >>
    /\ conversation_history[2] =
          << [role |-> "user", content |-> <<"x">>],
             [role |-> "assistant", content |-> tasks[2].ai_text] >>
    /\ tasks[1].ai_text # <<>> /\ tasks[2].ai_text # <<>>

\* C18: once a reset has completed on a channel and no new message arrives
\* afterwards, the channel's history stays empty: a request that was awaiting the
\* typing indicator or the completion call when the reset ran does not later
\* append its assistant turn to the cleared history.
C18_ClearedStaysEmpty ==
    [][\A c \in Channels :
          (/\ c \in DOMAIN conversation_history
           /\ conversation_history[c] = <<>>
           /\ ~\E t \in TaskIds : Arrival(t))
              => HistoryOf(conversation_history', c) = <<>>]_vars

----------------------------------------------------------------------------
(* Termination of on_message under fair scheduling *)

\* the next step of coroutine t, whatever the awaited call does
TaskStep(t) ==
    \/ TypingEntered(t) \/ TypingFails(t)
    \/ ApiReturns(t) \/ ApiRaises(t)
    \/ ReplySent(t) \/ ReplyFails(t)
    \/ FallbackSent(t) \/ FallbackFails(t)
    \/ ProcessCommands(t)

\* the event loop resumes every coroutine whose awaited call has completed
SpecFair == Spec /\ \A t \in TaskIds : WF_vars(TaskStep(t))

\* every chunk of the result of coroutine t has been dispatched
AllDispatched(t) ==
    /\ tasks[t].pc = "commands"
    /\ tasks[t].chunks # <<>>
    /\ Len(tasks[t].sent) = Len(tasks[t].chunks)

\* C19: every eligible message with non-empty text eventually has its user turn
\* and its assistant turn appended and then all chunks of the result dispatched,
\* whether the completion call succeeded or failed, unless the typing indicator
\* or a channel post raises.
C19_EligibleEventuallyDispatched ==
    \A t \in TaskIds :
        (tasks[t].pc = "typing") ~> (AllDispatched(t) \/ tasks[t].pc = "failed")

====
